---- MODULE Spec2Model ----
(***************************************************************************)
(* Model of render_batch.py: a batch loop that loads each PNG texture of a *)
(* folder into a fixed image node, renders it to <stem>_render.png, and    *)
(* shows a spinner (a daemon thread) while the render runs with stdout and *)
(* stderr redirected into a StringIO buffer.                               *)
(*                                                                         *)
(* The main script is one process (pc, ctx); every RenderSpinner thread is *)
(* a second process whose steps interleave freely with the main script.    *)
(* File names are sequences of character codes, so sorting, the glob match *)
(* and Path.stem are computed on the characters.                           *)
(*                                                                         *)
(* Exceptions: a step of the try block that calls into the host or does    *)
(* I/O may raise (a nondeterministic input, variable raised_at names the   *)
(* statement).  Everywhere else a statement raises exactly when the state  *)
(* forces it (join of a thread that was never started, write to None,      *)
(* write/getvalue on a closed StringIO).                                   *)
(***************************************************************************)
EXTENDS Integers, Sequences, FiniteSets, TLC

VARIABLES
    dir_files,          \* names present in the Textures directory
    target,             \* what the scene holds for OBJECT_NAME / IMAGE_NODE_NAME
    gpu_raises,         \* whether the GPU setup try block raises (line 56)
    texture_files,      \* line 29
    scene,              \* engine, file_format, cycles_device, filepath
    prefs,              \* cycles preferences: compute_device_type, devices
    original_filepath,  \* line 86
    pc,                 \* position of the main script
    ctx,                \* "top", "try" (lines 251-293) or "except" (lines 296-312)
    raised_at,          \* statement of the try block whose exception is handled
    idx,                \* loop index of line 234 (0 before the first item)
    is_spinning,        \* RenderSpinner.is_spinning
    spinner_thread,     \* RenderSpinner.thread: 0 is None, else index in threads
    status_fields,      \* current_file, current_index, total_files
    threads,            \* every Thread object created at line 184
    output_buffer,      \* OutputCapture.output_buffer: index in buffers
    old_stdout,         \* OutputCapture.old_stdout
    old_stderr,         \* OutputCapture.old_stderr
    buffers,            \* every io.StringIO created (lines 205, 211)
    sys_stdout,         \* sys.stdout
    sys_stderr,         \* sys.stderr
    streams_at_start,   \* <<sys.stdout, sys.stderr>> read by the last start()
    img,                \* local img of line 258 (0: unbound)
    images,             \* bpy.data.images entries loaded by this run (item numbers)
    img_node_image,     \* img_node.image (0: whatever the scene had)
    captured_output,    \* local captured_output
    output_files,       \* files written into the Output directory by this run
    successful_renders, \* line 231
    failed_renders      \* line 232

vars == <<dir_files, target, gpu_raises, texture_files, scene, prefs,
          original_filepath, pc, ctx, raised_at, idx, is_spinning,
          spinner_thread, status_fields, threads, output_buffer, old_stdout,
          old_stderr, buffers, sys_stdout, sys_stderr, streams_at_start, img,
          images, img_node_image, captured_output, output_files,
          successful_renders, failed_renders>>

envVars == <<dir_files, target, gpu_raises>>
sceneVars == <<scene, prefs, original_filepath>>
spinnerVars == <<is_spinning, spinner_thread, status_fields>>
captureVars == <<output_buffer, old_stdout, old_stderr, streams_at_start>>
streamVars == <<sys_stdout, sys_stderr>>
hostVars == <<img, images, img_node_image, output_files>>
counterVars == <<successful_renders, failed_renders>>

(***************************************************************************)
(* Bounds                                                                  *)
(***************************************************************************)
\* Largest number of entries of the Textures directory.
MaxFiles == 3
\* Largest number of frames one spinner thread draws before it only polls.
MaxFrames == 1
\* Largest number of files the progress display is computed for.
MaxTotal == 50
\* Longest part before ".png" of the file names the output path is compared on.
MaxStemLen == 3

(***************************************************************************)
(* File names (character codes) and the pure functions on them             *)
(***************************************************************************)
\* "a.png", "a.b.png", "b.png", and "a.txt", which the glob must skip.
NameUniverse ==
    { <<97, 46, 112, 110, 103>>,
      <<97, 46, 98, 46, 112, 110, 103>>,
      <<98, 46, 112, 110, 103>>,
      <<97, 46, 116, 120, 116>> }

\* ".png"
PngSuffix == <<46, 112, 110, 103>>
\* "_render.png"
RenderSuffix == <<95, 114, 101, 110, 100, 101, 114, 46, 112, 110, 103>>

EndsWith(s, suf) ==
    /\ Len(s) >= Len(suf)
    /\ SubSeq(s, Len(s) - Len(suf) + 1, Len(s)) = suf

\* glob "*.png" on one directory entry: the name ends in ".png" and is not
\* hidden (a leading dot is never matched by "*").
GlobMatch(name) ==
    /\ EndsWith(name, PngSuffix)
    /\ name[1] # 46

\* str.__lt__: code-point lexicographic order.
RECURSIVE LexLess(_, _)
LexLess(s, t) ==
    IF s = <<>> THEN t # <<>>
    ELSE IF t = <<>> THEN FALSE
    ELSE IF Head(s) # Head(t) THEN Head(s) < Head(t)
    ELSE LexLess(Tail(s), Tail(t))

\* sorted(): repeatedly take the least remaining element.
RECURSIVE SortedSeq(_)
SortedSeq(S) ==
    IF S = {} THEN <<>>
    ELSE LET m == CHOOSE x \in S : \A y \in S \ {x} : LexLess(x, y)
         IN  <<m>> \o SortedSeq(S \ {m})

\* Variant of LastDot that takes the first dot (str.find).
FirstDot(name) ==
    LET D == { i \in 1..Len(name) : name[i] = 46 }
    IN  IF D = {} THEN 0 ELSE CHOOSE i \in D : \A j \in D : i <= j

\* str.rfind('.'): the last index holding a dot, 0 when there is none.
LastDot(name) ==
    LET D == { i \in 1..Len(name) : name[i] = 46 }
    IN  IF D = {} THEN 0 ELSE CHOOSE i \in D : \A j \in D : j <= i

\* pathlib.PurePath.stem: the name without its last suffix; a leading or a
\* trailing dot starts no suffix.
Stem(name) ==
    LET i == LastDot(name)
    IN  IF 1 < i /\ i < Len(name) THEN SubSeq(name, 1, i - 1) ELSE name

\* line 264: f"{filename_without_ext}_render.png"
OutputFilename(name) == Stem(name) \o RenderSuffix

\* line 265: str(output_dir / output_filename)
OutputPath(name) == [dir |-> "Output", name |-> OutputFilename(name)]

(***************************************************************************)
(* Streams                                                                 *)
(***************************************************************************)
OrigStdout == [kind |-> "orig", id |-> 1]
OrigStderr == [kind |-> "orig", id |-> 2]
NoStream == [kind |-> "none", id |-> 0]
BufStream(b) == [kind |-> "buf", id |-> b]

\* stream.write(text) raises: AttributeError on None, ValueError on a closed
\* StringIO.
WriteRaises(s, bufs) ==
    \/ s.kind = "none"
    \/ s.kind = "buf" /\ bufs[s.id].closed

\* The buffers after a successful stream.write(text); tag names the writer.
WriteEffect(s, tag, bufs) ==
    IF s.kind = "buf"
    THEN [bufs EXCEPT ![s.id].content = Append(@, tag)]
    ELSE bufs

\* print(): silently returns when sys.stdout is None, else writes to it.
PrintRaises(s, bufs) == s.kind = "buf" /\ bufs[s.id].closed
PrintEffect(s, bufs) ==
    IF s.kind = "none" THEN bufs ELSE WriteEffect(s, "main", bufs)

(***************************************************************************)
(* Initial state: the script is about to run line 29                       *)
(***************************************************************************)
TargetKinds ==
    {"ok", "no_object", "no_materials", "empty_slot", "no_node_tree", "no_node"}

PreScene ==
    [engine |-> "BLENDER_EEVEE", file_format |-> "JPEG", cycles_device |-> "CPU",
     filepath |-> [dir |-> "tmp", name |-> <<>>]]

\* The machine has one CPU device (in use) and one CUDA device (not in use).
PreDevices == <<[type |-> "CPU", use |-> TRUE], [type |-> "CUDA", use |-> FALSE]>>
PrePrefs == [compute_device_type |-> "NONE", devices |-> PreDevices]

Init ==
    /\ dir_files \in { D \in SUBSET NameUniverse : Cardinality(D) <= MaxFiles }
    /\ target \in TargetKinds
    /\ gpu_raises \in BOOLEAN
    /\ texture_files = <<>>
    /\ scene = PreScene
    /\ prefs = PrePrefs
    /\ original_filepath = [dir |-> "unset", name |-> <<>>]
    /\ pc = "discover"
    /\ ctx = "top"
    /\ raised_at = "none"
    /\ idx = 0
    /\ is_spinning = FALSE
    /\ spinner_thread = 0
    /\ status_fields = [current_file |-> <<>>, current_index |-> 0, total_files |-> 0]
    /\ threads = <<>>
    /\ output_buffer = 0
    /\ old_stdout = NoStream
    /\ old_stderr = NoStream
    /\ buffers = <<>>
    /\ sys_stdout = OrigStdout
    /\ sys_stderr = OrigStderr
    /\ streams_at_start = <<NoStream, NoStream>>
    /\ img = 0
    /\ images = {}
    /\ img_node_image = 0
    /\ captured_output = <<>>
    /\ output_files = {}
    /\ successful_renders = 0
    /\ failed_renders = 0

(***************************************************************************)
(* Lines 28-129: discovery, render settings, GPU setup, validation         *)
(***************************************************************************)
\* lines 29-33
Discover ==
    /\ pc = "discover"
    /\ texture_files' = SortedSeq({ n \in dir_files : GlobMatch(n) })
    /\ pc' = IF texture_files' = <<>> THEN "exit_no_files" ELSE "settings"
    /\ UNCHANGED <<envVars, sceneVars, ctx, raised_at, idx, spinnerVars, threads,
                   captureVars, buffers, streamVars, hostVars, captured_output,
                   counterVars>>

\* lines 47-48
RenderSettings ==
    /\ pc = "settings"
    /\ scene' = [scene EXCEPT !.engine = "CYCLES", !.file_format = "PNG"]
    /\ pc' = "gpu"
    /\ UNCHANGED <<envVars, texture_files, prefs, original_filepath, ctx, raised_at,
                   idx, spinnerVars, threads, captureVars, buffers, streamVars,
                   hostVars, captured_output, counterVars>>

\* lines 65-67: every CUDA device is enabled
EnableCuda(devices) ==
    [i \in DOMAIN devices |->
        IF devices[i].type = "CUDA" THEN [devices[i] EXCEPT !.use = TRUE]
        ELSE devices[i]]

\* lines 54-86: the GPU try block, its fallback, and original_filepath
GpuSetup ==
    /\ pc = "gpu"
    /\ IF gpu_raises
       THEN /\ scene' = [scene EXCEPT !.cycles_device = "CPU"]
            /\ UNCHANGED prefs
       ELSE /\ prefs' = [compute_device_type |-> "CUDA",
                         devices |-> EnableCuda(prefs.devices)]
            /\ scene' = [scene EXCEPT !.cycles_device = "GPU"]
    /\ original_filepath' = scene.filepath
    /\ pc' = "validate"
    /\ UNCHANGED <<envVars, texture_files, ctx, raised_at, idx, spinnerVars, threads,
                   captureVars, buffers, streamVars, hostVars, captured_output,
                   counterVars>>

\* Variant of ValidateOk without the check of lines 121-124.
ValidateOkNodeUnchecked(t) == t \in {"ok", "no_node"}

\* lines 100-124 with MATERIAL_NAME = None: any missing part exits
ValidateOk(t) == t = "ok"

\* lines 100-129, and the objects and counters of lines 229-232
Validate ==
    /\ pc = "validate"
    /\ IF ValidateOk(target)
       THEN /\ pc' = "for"
            /\ buffers' = <<[closed |-> FALSE, content |-> <<>>]>>
            /\ output_buffer' = 1
       ELSE /\ pc' = "exit_target"
            /\ UNCHANGED <<buffers, output_buffer>>
    /\ UNCHANGED <<envVars, texture_files, sceneVars, ctx, raised_at, idx,
                   spinnerVars, threads, old_stdout, old_stderr, streams_at_start,
                   streamVars, hostVars, captured_output, counterVars>>

(***************************************************************************)
(* Exceptions and returns of the calls shared by the try block and the     *)
(* except handler                                                          *)
(***************************************************************************)
\* An exception of the try block reaches line 295: the handler starts with
\* spinner.stop() (line 297).
EnterHandler(site) ==
    /\ ctx' = "except"
    /\ raised_at' = site
    /\ pc' = "spin_stop"

\* An exception raised in spinner.stop(): caught at line 295 when the call
\* is the one of line 274; the call of line 297 is unguarded, so the
\* exception leaves the script.
Propagate(site) ==
    IF ctx = "try"
    THEN EnterHandler(site)
    ELSE /\ pc' = "aborted"
         /\ UNCHANGED <<ctx, raised_at>>

\* A call returns to its caller in the try block or in the handler.
ReturnTo(tryPc, exceptPc) ==
    /\ pc' = IF ctx = "try" THEN tryPc ELSE exceptPc
    /\ UNCHANGED <<ctx, raised_at>>

\* Locals of _spin: bar holds what lines 152-153 read (current_index,
\* total_files), shown what lines 152-160 made of it (filled cells, empty
\* cells, percentage), text what the f-string of line 170 read
\* (current_index, total_files, current_file); <<>> while not yet assigned.
NewThread == [status |-> "unstarted", tpc |-> "test", ref |-> NoStream, n |-> 0,
              bar |-> <<>>, shown |-> <<>>, text |-> <<>>]
\* A thread that has ended keeps no locals: it returned from _spin (line 150
\* read False) or an exception left _spin.
EndedThread(how) == [status |-> how, tpc |-> "end", ref |-> NoStream, n |-> 0,
                     bar |-> <<>>, shown |-> <<>>, text |-> <<>>]
NewBuffer == [closed |-> FALSE, content |-> <<>>]
\* StringIO.close() discards the text.
ClosedBuffer == [closed |-> TRUE, content |-> <<>>]

(***************************************************************************)
(* Lines 234-293: the loop head and the try block                          *)
(***************************************************************************)
\* lines 234-248: next item and its banner, or the end of the loop
ForNext ==
    /\ pc = "for"
    /\ IF idx = Len(texture_files)
       THEN /\ pc' = "cleanup"
            /\ UNCHANGED <<idx, ctx, buffers>>
       ELSE /\ idx' = idx + 1
            /\ IF PrintRaises(sys_stdout, buffers)
               THEN /\ pc' = "aborted"
                    /\ UNCHANGED <<ctx, buffers>>
               ELSE /\ buffers' = PrintEffect(sys_stdout, buffers)
                    /\ ctx' = "try"
                    /\ pc' = "spinner_start"
    /\ UNCHANGED <<envVars, texture_files, sceneVars, raised_at, spinnerVars,
                   threads, captureVars, streamVars, hostVars, captured_output,
                   counterVars>>

\* Variant of SpinnerStartFields that leaves current_index as it was.
SpinnerStartFieldsStaleIndex ==
    /\ pc = "spinner_start"
    /\ status_fields' = [status_fields EXCEPT
                             !.current_file = Stem(texture_files[idx]),
                             !.total_files = Len(texture_files)]
    /\ is_spinning' = TRUE
    /\ threads' = Append(threads, NewThread)
    /\ spinner_thread' = Len(threads) + 1
    /\ pc' = "thread_start"
    /\ UNCHANGED <<envVars, texture_files, sceneVars, ctx, raised_at, idx,
                   captureVars, buffers, streamVars, hostVars, captured_output,
                   counterVars>>

\* lines 252, 179-184: the status fields, the run flag, a new Thread object
SpinnerStartFields ==
    /\ pc = "spinner_start"
    /\ status_fields' = [current_file |-> Stem(texture_files[idx]),
                         current_index |-> idx,
                         total_files |-> Len(texture_files)]
    /\ is_spinning' = TRUE
    /\ threads' = Append(threads, NewThread)
    /\ spinner_thread' = Len(threads) + 1
    /\ pc' = "thread_start"
    /\ UNCHANGED <<envVars, texture_files, sceneVars, ctx, raised_at, idx,
                   captureVars, buffers, streamVars, hostVars, captured_output,
                   counterVars>>

\* lines 185-186: Thread.start() starts the thread, or raises RuntimeError
\* (can't start new thread) and leaves it unstarted
ThreadStart ==
    /\ pc = "thread_start"
    /\ \/ /\ threads' = [threads EXCEPT ![spinner_thread].status = "running"]
          /\ pc' = "capture_start"
          /\ UNCHANGED <<ctx, raised_at>>
       \/ /\ EnterHandler("thread_start")
          /\ UNCHANGED threads
    /\ UNCHANGED <<envVars, texture_files, sceneVars, idx, spinnerVars,
                   captureVars, buffers, streamVars, hostVars, captured_output,
                   counterVars>>

\* lines 255, 211-215: OutputCapture.start(); io.StringIO() may raise
CaptureStart ==
    /\ pc = "capture_start"
    /\ \/ /\ buffers' = Append(buffers, NewBuffer)
          /\ output_buffer' = Len(buffers) + 1
          /\ old_stdout' = sys_stdout
          /\ old_stderr' = sys_stderr
          /\ streams_at_start' = <<sys_stdout, sys_stderr>>
          /\ sys_stdout' = BufStream(Len(buffers) + 1)
          /\ sys_stderr' = BufStream(Len(buffers) + 1)
          /\ pc' = "load"
          /\ UNCHANGED <<ctx, raised_at>>
       \/ /\ EnterHandler("capture_start")
          /\ UNCHANGED <<buffers, captureVars, streamVars>>
    /\ UNCHANGED <<envVars, texture_files, sceneVars, idx, spinnerVars, threads,
                   hostVars, captured_output, counterVars>>

\* line 258: bpy.data.images.load
ImageLoad ==
    /\ pc = "load"
    /\ \/ /\ img' = idx
          /\ images' = images \cup {idx}
          /\ pc' = "assign"
          /\ UNCHANGED <<ctx, raised_at>>
       \/ /\ EnterHandler("image_load")
          /\ UNCHANGED <<img, images>>
    /\ UNCHANGED <<envVars, texture_files, sceneVars, idx, spinnerVars, threads,
                   captureVars, buffers, streamVars, img_node_image, output_files,
                   captured_output, counterVars>>

\* Variant of AssignImage that leaves a node alone once it holds an image.
AssignImageOnlyOnce ==
    /\ pc = "assign"
    /\ \/ /\ img_node_image' = IF img_node_image = 0 THEN img ELSE img_node_image
          /\ pc' = "set_path"
          /\ UNCHANGED <<ctx, raised_at>>
       \/ /\ EnterHandler("assign")
          /\ UNCHANGED img_node_image
    /\ UNCHANGED <<envVars, texture_files, sceneVars, idx, spinnerVars, threads,
                   captureVars, buffers, streamVars, img, images, output_files,
                   captured_output, counterVars>>

\* line 261: img_node.image = img
AssignImage ==
    /\ pc = "assign"
    /\ \/ /\ img_node_image' = img
          /\ pc' = "set_path"
          /\ UNCHANGED <<ctx, raised_at>>
       \/ /\ EnterHandler("assign")
          /\ UNCHANGED img_node_image
    /\ UNCHANGED <<envVars, texture_files, sceneVars, idx, spinnerVars, threads,
                   captureVars, buffers, streamVars, img, images, output_files,
                   captured_output, counterVars>>

\* lines 264-265
SetOutputPath ==
    /\ pc = "set_path"
    /\ scene' = [scene EXCEPT !.filepath = OutputPath(texture_files[idx])]
    /\ pc' = "render"
    /\ UNCHANGED <<envVars, texture_files, prefs, original_filepath, ctx, raised_at,
                   idx, spinnerVars, threads, captureVars, buffers, streamVars,
                   hostVars, captured_output, counterVars>>

\* line 268: the render logs to sys.stdout and writes scene.render.filepath,
\* or logs and raises without writing
Render ==
    /\ pc = "render"
    /\ buffers' = IF WriteRaises(sys_stdout, buffers) THEN buffers
                  ELSE WriteEffect(sys_stdout, "render", buffers)
    /\ \/ /\ output_files' = output_files \cup {scene.filepath}
          /\ pc' = "cap_restore"
          /\ UNCHANGED <<ctx, raised_at>>
       \/ /\ EnterHandler("render")
          /\ UNCHANGED output_files
    /\ UNCHANGED <<envVars, texture_files, sceneVars, idx, spinnerVars, threads,
                   captureVars, streamVars, img, images, img_node_image,
                   captured_output, counterVars>>

(***************************************************************************)
(* Lines 217-223: OutputCapture.stop(), called at lines 271 and 299        *)
(***************************************************************************)
\* Variant of CaptureRestore that forgets the saved streams once restored.
CaptureRestoreForgets ==
    /\ pc = "cap_restore"
    /\ sys_stdout' = old_stdout
    /\ sys_stderr' = old_stderr
    /\ old_stdout' = NoStream
    /\ old_stderr' = NoStream
    /\ pc' = "cap_read"
    /\ UNCHANGED <<envVars, texture_files, sceneVars, ctx, raised_at, idx,
                   spinnerVars, threads, output_buffer, streams_at_start, buffers,
                   hostVars, captured_output, counterVars>>

\* lines 219-220
CaptureRestore ==
    /\ pc = "cap_restore"
    /\ sys_stdout' = old_stdout
    /\ sys_stderr' = old_stderr
    /\ pc' = "cap_read"
    /\ UNCHANGED <<envVars, texture_files, sceneVars, ctx, raised_at, idx,
                   spinnerVars, threads, captureVars, buffers, hostVars,
                   captured_output, counterVars>>

\* lines 221-223: getvalue() raises ValueError on a closed buffer (and may
\* raise in the try block); the bare except of line 300 gives ""
CaptureRead ==
    /\ pc = "cap_read"
    /\ \/ /\ ~buffers[output_buffer].closed
          /\ captured_output' = buffers[output_buffer].content
          /\ buffers' = [buffers EXCEPT ![output_buffer] = ClosedBuffer]
          /\ ReturnTo("spin_stop", "handler_print")
       \/ /\ buffers[output_buffer].closed
          /\ ctx = "except"
          /\ captured_output' = <<>>
          /\ pc' = "handler_print"
          /\ UNCHANGED <<buffers, ctx, raised_at>>
       \/ /\ ctx = "try"
          /\ EnterHandler("capture_stop")
          /\ UNCHANGED <<buffers, captured_output>>
    /\ UNCHANGED <<envVars, texture_files, sceneVars, idx, spinnerVars, threads,
                   captureVars, streamVars, hostVars, counterVars>>

(***************************************************************************)
(* Lines 188-195: RenderSpinner.stop(), called at lines 274 and 297        *)
(***************************************************************************)
\* line 190
SpinStopFlag ==
    /\ pc = "spin_stop"
    /\ is_spinning' = FALSE
    /\ pc' = "spin_join"
    /\ UNCHANGED <<envVars, texture_files, sceneVars, ctx, raised_at, idx,
                   spinner_thread, status_fields, threads, captureVars, buffers,
                   streamVars, hostVars, captured_output, counterVars>>

\* Variant of JoinReturns that does not wait for a running thread.
JoinReturnsAtOnce(thread) == thread.status # "unstarted"

\* Thread.join() returns once the thread has ended.
JoinReturns(thread) == thread.status \in {"finished", "crashed"}

\* lines 191-192: join() blocks while the thread runs and raises
\* RuntimeError for a thread that was never started
SpinJoin ==
    /\ pc = "spin_join"
    /\ \/ /\ spinner_thread = 0 \/ JoinReturns(threads[spinner_thread])
          /\ pc' = "spin_clear"
          /\ UNCHANGED <<ctx, raised_at>>
       \/ /\ spinner_thread # 0
          /\ threads[spinner_thread].status = "unstarted"
          /\ Propagate("spinner_stop")
    /\ UNCHANGED <<envVars, texture_files, sceneVars, idx, spinnerVars, threads,
                   captureVars, buffers, streamVars, hostVars, captured_output,
                   counterVars>>

\* lines 194-195: the line-clear goes to whatever sys.stdout is now
SpinClear ==
    /\ pc = "spin_clear"
    /\ \/ /\ ~WriteRaises(sys_stdout, buffers)
          /\ buffers' = WriteEffect(sys_stdout, "clear", buffers)
          /\ ReturnTo("remove", "cap_restore")
       \/ /\ WriteRaises(sys_stdout, buffers)
          /\ Propagate("spinner_stop")
          /\ UNCHANGED buffers
       \/ /\ ctx = "try"
          /\ EnterHandler("spinner_stop")
          /\ UNCHANGED buffers
    /\ UNCHANGED <<envVars, texture_files, sceneVars, idx, spinnerVars, threads,
                   captureVars, streamVars, hostVars, captured_output,
                   counterVars>>

(***************************************************************************)
(* Lines 277-312: the rest of the try block, and the handler               *)
(***************************************************************************)
\* line 277: bpy.data.images.remove(img)
ImageRemove ==
    /\ pc = "remove"
    /\ \/ /\ images' = images \ {img}
          /\ pc' = "print_log"
          /\ UNCHANGED <<ctx, raised_at>>
       \/ /\ EnterHandler("image_remove")
          /\ UNCHANGED images
    /\ UNCHANGED <<envVars, texture_files, sceneVars, idx, spinnerVars, threads,
                   captureVars, buffers, streamVars, img, img_node_image,
                   output_files, captured_output, counterVars>>

\* lines 282-287: the captured log and the two result lines
PrintLog ==
    /\ pc = "print_log"
    /\ \/ /\ ~PrintRaises(sys_stdout, buffers)
          /\ buffers' = PrintEffect(sys_stdout, buffers)
          /\ pc' = "count_success"
          /\ UNCHANGED <<ctx, raised_at>>
       \/ /\ EnterHandler("print_log")
          /\ UNCHANGED buffers
    /\ UNCHANGED <<envVars, texture_files, sceneVars, idx, spinnerVars, threads,
                   captureVars, streamVars, hostVars, captured_output,
                   counterVars>>

\* lines 289-293
CountSuccess ==
    /\ pc = "count_success"
    /\ successful_renders' = successful_renders + 1
    /\ ctx' = "top"
    /\ pc' = "for"
    /\ UNCHANGED <<envVars, texture_files, sceneVars, raised_at, idx, spinnerVars,
                   threads, captureVars, buffers, streamVars, hostVars,
                   captured_output, failed_renders>>

\* lines 303-308: the error message and the output captured before it
HandlerPrint ==
    /\ pc = "handler_print"
    /\ IF PrintRaises(sys_stdout, buffers)
       THEN /\ pc' = "aborted"
            /\ UNCHANGED buffers
       ELSE /\ buffers' = PrintEffect(sys_stdout, buffers)
            /\ pc' = "count_failure"
    /\ UNCHANGED <<envVars, texture_files, sceneVars, ctx, raised_at, idx,
                   spinnerVars, threads, captureVars, streamVars, hostVars,
                   captured_output, counterVars>>

\* Variant of CountFailure without line 310.
CountFailureUncounted ==
    /\ pc = "count_failure"
    /\ ctx' = "top"
    /\ pc' = "for"
    /\ UNCHANGED <<envVars, texture_files, sceneVars, raised_at, idx, spinnerVars,
                   threads, captureVars, buffers, streamVars, hostVars,
                   captured_output, counterVars>>

\* lines 310-312
CountFailure ==
    /\ pc = "count_failure"
    /\ failed_renders' = failed_renders + 1
    /\ ctx' = "top"
    /\ pc' = "for"
    /\ UNCHANGED <<envVars, texture_files, sceneVars, raised_at, idx, spinnerVars,
                   threads, captureVars, buffers, streamVars, hostVars,
                   captured_output, successful_renders>>

(***************************************************************************)
(* Lines 318-330: cleanup and summary                                      *)
(***************************************************************************)
\* Variant of Cleanup without line 318.
CleanupKeepsPath ==
    /\ pc = "cleanup"
    /\ pc' = "summary"
    /\ UNCHANGED <<envVars, texture_files, sceneVars, ctx, raised_at, idx,
                   spinnerVars, threads, captureVars, buffers, streamVars,
                   hostVars, captured_output, counterVars>>

\* line 318
Cleanup ==
    /\ pc = "cleanup"
    /\ scene' = [scene EXCEPT !.filepath = original_filepath]
    /\ pc' = "summary"
    /\ UNCHANGED <<envVars, texture_files, prefs, original_filepath, ctx, raised_at,
                   idx, spinnerVars, threads, captureVars, buffers, streamVars,
                   hostVars, captured_output, counterVars>>

\* lines 321-330: the counters are read and printed
Summary ==
    /\ pc = "summary"
    /\ IF PrintRaises(sys_stdout, buffers)
       THEN /\ pc' = "aborted"
            /\ UNCHANGED buffers
       ELSE /\ buffers' = PrintEffect(sys_stdout, buffers)
            /\ pc' = "done"
    /\ UNCHANGED <<envVars, texture_files, sceneVars, ctx, raised_at, idx,
                   spinnerVars, threads, captureVars, streamVars, hostVars,
                   captured_output, counterVars>>

(***************************************************************************)
(* Lines 152-160: the progress bar and the percentage.  percent is a       *)
(* Python float (IEEE 754 binary64), so the quotient and the two products  *)
(* are rounded to 53 significant bits (round-half-to-even) and int()       *)
(* truncates.  A float is [m, s]: m its 53 significand bits (most          *)
(* significant first), value m / 2^s; m = <<>> is 0.0.                     *)
(***************************************************************************)
\* Bits of a binary64 significand.
SignificandBits == 53
\* line 154: bar_length
BarLength == 40
\* line 157: percent * 100
PercentScale == 100

FloatZero == [m |-> <<>>, s |-> 0]

\* Binary digits of a natural number, most significant first.
RECURSIVE BinOf(_)
BinOf(n) == IF n = 0 THEN <<>> ELSE BinOf(n \div 2) \o <<n % 2>>

\* Value of a short bit sequence.
RECURSIVE BitsToInt(_)
BitsToInt(bits) ==
    IF bits = <<>> THEN 0
    ELSE 2 * BitsToInt(SubSeq(bits, 1, Len(bits) - 1)) + bits[Len(bits)]

\* bits + 1 (one bit longer when every bit was 1): the last 0 becomes 1 and
\* the 1s after it become 0.
IncBits(bits) ==
    LET Z == { i \in 1..Len(bits) : bits[i] = 0 }
    IN  IF Z = {} THEN <<1>> \o [i \in 1..Len(bits) |-> 0]
        ELSE LET p == CHOOSE i \in Z : \A j \in Z : j <= i
             IN  [i \in 1..Len(bits) |->
                    IF i < p THEN bits[i] ELSE IF i = p THEN 1 ELSE 0]

\* Round the exact value bits / 2^s (leading bit 1) to a float:
\* round-half-to-even on the bits after the first 53.
RoundToFloat(bits, s) ==
    IF Len(bits) <= SignificandBits
    THEN [m |-> bits \o [i \in 1..(SignificandBits - Len(bits)) |-> 0],
          s |-> s + (SignificandBits - Len(bits))]
    ELSE LET kept == SubSeq(bits, 1, SignificandBits)
             drop == Len(bits) - SignificandBits
             guard == bits[SignificandBits + 1]
             sticky == \E i \in (SignificandBits + 2)..Len(bits) : bits[i] = 1
             up == guard = 1 /\ (sticky \/ kept[SignificandBits] = 1)
             r == IF up THEN IncBits(kept) ELSE kept
         IN  IF Len(r) > SignificandBits
             THEN [m |-> SubSeq(r, 1, SignificandBits), s |-> s - drop - 1]
             ELSE [m |-> r, s |-> s - drop]

\* 2^j mod b, by repeated squaring.
RECURSIVE Pow2Mod(_, _)
Pow2Mod(j, b) ==
    IF j = 0 THEN 1 % b
    ELSE LET h == Pow2Mod(j \div 2, b)
         IN  (h * h * (IF j % 2 = 1 THEN 2 ELSE 1)) % b

\* What is left of a / b (0 <= a < b) after j binary digits, times b.
DivRemainder(a, b, j) == (a * Pow2Mod(j, b)) % b

\* The j-th binary digit of a / b after the point, j >= 1.
DivBit(a, b, j) == IF 2 * DivRemainder(a, b, j - 1) >= b THEN 1 ELSE 0

\* line 153: a / b as a float, for 0 <= a < b: the 53 digits from the first
\* 1, one more, and one that says whether a remainder is left.
FloatDiv(a, b) ==
    IF a = 0 THEN FloatZero
    ELSE LET z == CHOOSE j \in 0..b :
                    /\ DivBit(a, b, j + 1) = 1
                    /\ \A i \in 0..(j - 1) : DivBit(a, b, i + 1) = 0
             n == SignificandBits + 1
             bits == [k \in 1..n |-> DivBit(a, b, z + k)]
                     \o <<IF DivRemainder(a, b, z + n) = 0 THEN 0 ELSE 1>>
         IN  RoundToFloat(bits, z + n + 1)

\* bits * c + carry for a small natural c: the low Len(bits) bits and the
\* carry out of them, the low half first.
RECURSIVE MulBits(_, _, _)
MulBits(bits, c, carry) ==
    IF Len(bits) = 1
    THEN [bits |-> <<(bits[1] * c + carry) % 2>>,
          carry |-> (bits[1] * c + carry) \div 2]
    ELSE LET h == Len(bits) \div 2
             lo == MulBits(SubSeq(bits, h + 1, Len(bits)), c, carry)
         IN  \* the test makes the evaluation take the low half first
             IF lo.carry >= 0
             THEN LET hi == MulBits(SubSeq(bits, 1, h), c, lo.carry)
                  IN  [bits |-> hi.bits \o lo.bits, carry |-> hi.carry]
             ELSE lo

\* lines 155, 157: the product of a float and a small natural number.
FloatMul(f, c) ==
    IF f.m = <<>> \/ c = 0 THEN FloatZero
    ELSE LET p == MulBits(f.m, c, 0)
         IN  RoundToFloat(BinOf(p.carry) \o p.bits, f.s)

\* int(f) for a float 0 <= f < 2^53.
FloatToInt(f) ==
    IF f.m = <<>> \/ f.s >= SignificandBits THEN 0
    ELSE BitsToInt(SubSeq(f.m, 1, SignificandBits - f.s))

\* lines 153-157 for one multiplier: int(scale * ((index - 1) / total)),
\* with scale an int; a negative quotient is rounded as its magnitude is
\* and int() truncates toward zero.
ScaledProgress(index, total, scale) ==
    IF index >= 1
    THEN FloatToInt(FloatMul(FloatDiv(index - 1, total), scale))
    ELSE 0 - FloatToInt(FloatMul(FloatDiv(1 - index, total), scale))

\* lines 152-155 and 159: filled, 0 when total_files is 0
ProgressFilled(index, total) ==
    IF total > 0 THEN ScaledProgress(index, total, BarLength) ELSE 0

\* lines 152-157 and 160: percentage, 0 when total_files is 0
ProgressPercentage(index, total) ==
    IF total > 0 THEN ScaledProgress(index, total, PercentScale) ELSE 0

\* line 156: '-' * (bar_length - filled); a negative count gives ''
BarEmpty(filled) == IF BarLength - filled > 0 THEN BarLength - filled ELSE 0

\* lines 152-160 as one value: the filled cells and the empty cells of bar,
\* and percentage
BarOf(index, total) ==
    LET filled == ProgressFilled(index, total)
    IN  <<IF filled > 0 THEN filled ELSE 0, BarEmpty(filled),
          ProgressPercentage(index, total)>>

\* BarOf for the totals and indexes the bounds allow, held as a tuple of
\* tuples so that it is computed once.
BarTable ==
    <<>> \o [total \in 1..MaxTotal |->
                <<>> \o [index \in 1..total |-> BarOf(index, total)]]

Shown(index, total) ==
    IF total \in 1..MaxTotal /\ index \in 1..total
    THEN BarTable[total][index]
    ELSE BarOf(index, total)

(***************************************************************************)
(* Lines 147-175: RenderSpinner._spin, one process per started thread      *)
(***************************************************************************)
threadFrame == <<envVars, texture_files, sceneVars, pc, ctx, raised_at, idx,
                 spinnerVars, captureVars, streamVars, hostVars, captured_output,
                 counterVars>>

\* lines 150-160: the loop test, and the fields the progress bar reads
SpinTest(t) ==
    /\ threads[t].status = "running"
    /\ threads[t].tpc = "test"
    /\ IF is_spinning
       THEN /\ threads[t].n < MaxFrames
            /\ LET index == status_fields.current_index
                   total == status_fields.total_files
               IN  threads' = [threads EXCEPT
                                   ![t].tpc = "load_write",
                                   ![t].bar = <<index, total>>,
                                   ![t].shown = Shown(index, total)]
       ELSE threads' = [threads EXCEPT ![t] = EndedThread("finished")]
    /\ UNCHANGED <<threadFrame, buffers>>

\* lines 170-171, first half: the f-string reads the fields, then
\* sys.stdout is read and its write attribute looked up (AttributeError on
\* None ends the thread)
SpinLoadWrite(t) ==
    /\ threads[t].status = "running"
    /\ threads[t].tpc = "load_write"
    /\ threads' = IF sys_stdout.kind = "none"
                  THEN [threads EXCEPT ![t] = EndedThread("crashed")]
                  ELSE [threads EXCEPT
                            ![t].ref = sys_stdout,
                            ![t].tpc = "write",
                            ![t].text = <<status_fields.current_index,
                                          status_fields.total_files,
                                          status_fields.current_file>>]
    /\ UNCHANGED <<threadFrame, buffers>>

\* line 171, second half: write(status) on the stream that was read
SpinWrite(t) ==
    /\ threads[t].status = "running"
    /\ threads[t].tpc = "write"
    /\ IF WriteRaises(threads[t].ref, buffers)
       THEN /\ threads' = [threads EXCEPT ![t] = EndedThread("crashed")]
            /\ UNCHANGED buffers
       ELSE /\ buffers' = WriteEffect(threads[t].ref, "frame", buffers)
            /\ threads' = [threads EXCEPT ![t].tpc = "load_flush"]
    /\ UNCHANGED threadFrame

\* line 172, first half
SpinLoadFlush(t) ==
    /\ threads[t].status = "running"
    /\ threads[t].tpc = "load_flush"
    /\ threads' = IF sys_stdout.kind = "none"
                  THEN [threads EXCEPT ![t] = EndedThread("crashed")]
                  ELSE [threads EXCEPT ![t].ref = sys_stdout, ![t].tpc = "flush"]
    /\ UNCHANGED <<threadFrame, buffers>>

\* lines 172-175: flush() on the stream that was read (io.StringIO.flush()
\* does nothing, also on a closed buffer), idx += 1, sleep
SpinFlush(t) ==
    /\ threads[t].status = "running"
    /\ threads[t].tpc = "flush"
    /\ threads' = [threads EXCEPT ![t].tpc = "test", ![t].n = @ + 1,
                                  ![t].ref = NoStream, ![t].bar = <<>>,
                                  ![t].shown = <<>>, ![t].text = <<>>]
    /\ UNCHANGED <<threadFrame, buffers>>

Spin ==
    \E t \in DOMAIN threads :
        \/ SpinTest(t)
        \/ SpinLoadWrite(t)
        \/ SpinWrite(t)
        \/ SpinLoadFlush(t)
        \/ SpinFlush(t)

(***************************************************************************)
(* Specification                                                           *)
(***************************************************************************)
Next ==
    \/ Discover
    \/ RenderSettings
    \/ GpuSetup
    \/ Validate
    \/ ForNext
    \/ SpinnerStartFields
    \/ ThreadStart
    \/ CaptureStart
    \/ ImageLoad
    \/ AssignImage
    \/ SetOutputPath
    \/ Render
    \/ CaptureRestore
    \/ CaptureRead
    \/ SpinStopFlag
    \/ SpinJoin
    \/ SpinClear
    \/ ImageRemove
    \/ PrintLog
    \/ CountSuccess
    \/ HandlerPrint
    \/ CountFailure
    \/ Cleanup
    \/ Summary
    \/ Spin

Spec == Init /\ [][Next]_vars

(***************************************************************************)
(* The display thread of item index of total, for totals up to MaxTotal:   *)
(* the state in which spinner.start() (line 252) sleeps at line 186 after  *)
(* the items before it have succeeded, and the thread draws its frame.     *)
(***************************************************************************)
\* "a.png", "aa.png", "aaa.png", ...: total names as line 29 returns them
\* (sorted: "." is less than "a").
ManyFiles(total) == [k \in 1..total |-> [j \in 1..k |-> 97] \o PngSuffix]

ItemStarted(index, total) ==
    /\ dir_files = { ManyFiles(total)[k] : k \in 1..total }
    /\ target = "ok"
    /\ gpu_raises = FALSE
    /\ texture_files = ManyFiles(total)
    /\ scene = [engine |-> "CYCLES", file_format |-> "PNG", cycles_device |-> "GPU",
                filepath |-> IF index = 1 THEN PreScene.filepath
                             ELSE OutputPath(ManyFiles(total)[index - 1])]
    /\ prefs = [compute_device_type |-> "CUDA", devices |-> EnableCuda(PreDevices)]
    /\ original_filepath = PreScene.filepath
    /\ pc = "capture_start"
    /\ ctx = "try"
    /\ raised_at = "none"
    /\ idx = index
    /\ is_spinning = TRUE
    /\ spinner_thread = index
    /\ status_fields = [current_file |-> Stem(ManyFiles(total)[index]),
                        current_index |-> index,
                        total_files |-> total]
    /\ threads = [k \in 1..index |->
                     IF k < index THEN EndedThread("finished")
                     ELSE [NewThread EXCEPT !.status = "running"]]
    /\ output_buffer = index
    /\ old_stdout = IF index = 1 THEN NoStream ELSE OrigStdout
    /\ old_stderr = IF index = 1 THEN NoStream ELSE OrigStderr
    /\ buffers = <<NewBuffer>> \o [k \in 1..(index - 1) |-> ClosedBuffer]
    /\ sys_stdout = OrigStdout
    /\ sys_stderr = OrigStderr
    /\ streams_at_start = IF index = 1 THEN <<NoStream, NoStream>>
                          ELSE <<OrigStdout, OrigStderr>>
    /\ img = index - 1
    /\ images = {}
    /\ img_node_image = index - 1
    /\ captured_output = IF index = 1 THEN <<>> ELSE <<"render">>
    /\ output_files = { OutputPath(ManyFiles(total)[k]) : k \in 1..(index - 1) }
    /\ successful_renders = index - 1
    /\ failed_renders = 0

ProgressInit ==
    \E total \in 1..MaxTotal : \E index \in 1..total : ItemStarted(index, total)

ProgressNext == Spin

ProgressSpec == ProgressInit /\ [][ProgressNext]_vars

(***************************************************************************)
(* Properties                                                              *)
(***************************************************************************)
PreLoopPcs == {"discover", "settings", "gpu", "validate"}
ExitPcs == {"exit_no_files", "exit_target"}
AfterLoopPcs == {"cleanup", "summary", "done"}
ItemPcs == {"spinner_start", "thread_start", "capture_start", "load", "assign",
            "set_path", "render", "cap_restore", "cap_read", "spin_stop",
            "spin_join", "spin_clear", "remove", "print_log", "count_success",
            "handler_print", "count_failure"}
RunningThreads == { t \in DOMAIN threads : threads[t].status = "running" }
CountedItems == successful_renders + failed_renders

\* C1: between items the two counters add up to the number of items
\* finished, inside an item (before its counter statement) to one less, and
\* from the end of the loop on to the number of discovered files.
C1_CountersAddUp ==
    /\ pc = "for" => CountedItems = idx
    /\ pc \in ItemPcs => CountedItems = idx - 1
    /\ pc \in AfterLoopPcs => CountedItems = Len(texture_files)

\* C1 witness: a finished run that counted a success and a failure.
C1_Witness ==
    /\ pc = "done"
    /\ successful_renders >= 1
    /\ failed_renders >= 1

\* C2 (as claimed): at the summary the run has written as many output files
\* as it counted successes, each named after a discovered input.
C2_OutputsMatchSuccesses ==
    pc \in {"summary", "done"} =>
        /\ Cardinality(output_files) = successful_renders
        /\ \A f \in output_files :
              \E k \in 1..Len(texture_files) : f = OutputPath(texture_files[k])

\* C3 (as claimed): an exception of the try block never ends the batch; the
\* handler always completes.
C3_FailureNeverAborts == pc # "aborted"

\* C4: work of the main loop (an item entered, an image loaded, a file
\* written, a counter changed, a spinner thread or capture buffer created)
\* happens only in runs where a PNG was discovered and object, material,
\* node tree and image node were all found; otherwise the run is still
\* before the loop or has exited.
C4_NoWorkWithoutPreconditions ==
    (target # "ok" \/ { n \in dir_files : GlobMatch(n) } = {}) =>
        /\ pc \in PreLoopPcs \cup ExitPcs
        /\ idx = 0
        /\ images = {}
        /\ img_node_image = 0
        /\ output_files = {}
        /\ CountedItems = 0
        /\ threads = <<>>

\* C4 witness: PNG files exist but the image node is missing, and the run
\* has exited.
C4_Witness ==
    /\ pc = "exit_target"
    /\ target = "no_node"
    /\ texture_files # <<>>

\* C5: once a start() has completed and stop() has closed its buffer,
\* sys.stdout and sys.stderr are the streams start() found, however many
\* more times stop() is called.
C5_StopRestoresStreams ==
    (output_buffer >= 2 /\ buffers[output_buffer].closed) =>
        <<sys_stdout, sys_stderr>> = streams_at_start

\* C5 witness: the handler's stop() has run after the stop() of line 271
\* had already closed the buffer.
C5_Witness ==
    /\ pc = "handler_print"
    /\ raised_at \in {"spinner_stop", "image_remove", "print_log"}
    /\ output_buffer >= 2
    /\ buffers[output_buffer].closed

\* C6 (as claimed): a capture buffer, and the captured output taken from
\* it, holds only text of the render step.
C6_CaptureHoldsOnlyRenderText ==
    /\ \A b \in DOMAIN buffers :
          \A i \in DOMAIN buffers[b].content : buffers[b].content[i] = "render"
    /\ \A i \in DOMAIN captured_output : captured_output[i] = "render"

\* C7: at most one spinner thread runs at any time, and none runs while the
\* item's log or error message is printed, between items, or when the next
\* thread is created and started.
C7_OneDisplayThreadPerItem ==
    /\ Cardinality(RunningThreads) <= 1
    /\ pc \in {"remove", "print_log", "count_success", "cap_restore", "cap_read",
               "handler_print", "count_failure", "for", "spinner_start",
               "thread_start"} \cup AfterLoopPcs
          => (ctx = "try" /\ pc \in {"cap_restore", "cap_read"}) \/ RunningThreads = {}

\* C7 witness: the second item's thread is about to start after the first
\* item failed, and the first item's thread has ended.
C7_Witness ==
    /\ pc = "thread_start"
    /\ idx = 2
    /\ failed_renders = 1
    /\ threads[1].status = "finished"

\* C8 (as claimed): between items and at the summary no image loaded by
\* this run is left in bpy.data.images.
C8_ImagesReleased ==
    pc \in {"for"} \cup AfterLoopPcs => images = {}

\* C9 (as claimed): at the summary the render path is the pre-run one, and
\* between items it is the output path of the item just finished.
C9_PathOfLastItem ==
    /\ pc \in {"summary", "done"} => scene.filepath = PreScene.filepath
    /\ (pc = "for" /\ idx >= 1) => scene.filepath = OutputPath(texture_files[idx])

\* C9 (amended): at the summary the render path is the pre-run one, and
\* between items it is the pre-run one or the output path of an item
\* already attempted.
C9_PathRestored ==
    /\ pc \in {"summary", "done"} => scene.filepath = PreScene.filepath
    /\ pc = "for" =>
          \/ scene.filepath = PreScene.filepath
          \/ \E k \in 1..idx : scene.filepath = OutputPath(texture_files[k])

\* C9 witness: a finished run that wrote an output file and had a failure.
C9_Witness ==
    /\ pc = "done"
    /\ output_files # {}
    /\ failed_renders >= 1

\* C10 (as claimed): a run that exits because object, material, node tree
\* or image node is missing leaves scene and device preferences as they
\* were.
C10_ExitLeavesSceneUnchanged ==
    pc = "exit_target" => (scene = PreScene /\ prefs = PrePrefs)

\* C11: whenever the render operation is about to be invoked for item idx,
\* the image node holds the image loaded for that item, that image is in
\* bpy.data.images, and the render path is the item's own output path.
C11_RenderUsesOwnItem ==
    pc = "render" =>
        /\ img = idx
        /\ img_node_image = idx
        /\ idx \in images
        /\ scene.filepath = OutputPath(texture_files[idx])

\* C11 witness: the render of the third item is about to start after the
\* first item succeeded and the second failed.
C11_Witness ==
    /\ pc = "render"
    /\ idx = 3
    /\ successful_renders = 1
    /\ failed_renders = 1

\* C12 (as claimed): between items and at the summary sys.stdout and
\* sys.stderr are the process's original streams.
C12_StreamsOriginalBetweenItems ==
    pc \in {"for"} \cup AfterLoopPcs =>
        (sys_stdout = OrigStdout /\ sys_stderr = OrigStderr)

\* C13 (as claimed): no spinner thread is ended by an exception; a thread
\* ends only by reading is_spinning = False at line 150.
C13_ThreadEndsOnlyByFlag ==
    \A t \in DOMAIN threads : threads[t].status # "crashed"

\* C14: the status fields change only in RenderSpinner.start(), while no
\* display thread is alive, and whatever a display thread has read for a
\* frame (for the bar at lines 152-153, for the text at line 170) is the
\* filename, index and total of the item the thread was started for.
FrameOfItem(t) ==
    /\ threads[t].bar \in {<<>>, <<t, Len(texture_files)>>}
    /\ threads[t].text \in {<<>>, <<t, Len(texture_files),
                                    Stem(texture_files[t])>>}
C14_FramesShowOwnItem ==
    /\ [](/\ pc = "spinner_start" => RunningThreads = {}
          /\ RunningThreads # {} => status_fields.current_index = idx
          /\ \A t \in DOMAIN threads : FrameOfItem(t))
    /\ [][status_fields' # status_fields =>
              (pc = "spinner_start" /\ RunningThreads = {})]_vars
\* The thread of the second item has composed a frame and is about to
\* write it.
C14_Witness ==
    /\ Len(threads) = 2
    /\ threads[2].tpc = "write"
    /\ threads[2].text # <<>>
    /\ idx = 2

\* Names the glob can return: up to MaxStemLen characters of "a", "b" and
\* ".", then ".png".
PngNames ==
    { n \in { s \o PngSuffix :
                s \in UNION { [1..k -> {46, 97, 98}] : k \in 1..MaxStemLen } } :
        GlobMatch(n) }
\* C15: any two distinct files of the discovered list (and any two distinct
\* names the glob can return) have different output paths, and the path a
\* render is about to write has not been written by an earlier item of the
\* run.
C15_OutputPathsDistinct ==
    /\ \A i, j \in 1..Len(texture_files) :
           i # j => OutputPath(texture_files[i]) # OutputPath(texture_files[j])
    /\ pc = "discover" =>
           \A n1, n2 \in PngNames :
               n1 # n2 => OutputPath(n1) # OutputPath(n2)
    /\ pc = "render" => scene.filepath \notin output_files
\* "a.b.png" has been rendered and "a.png", whose name is a prefix of it,
\* is about to be.
C15_Witness ==
    /\ pc = "render"
    /\ idx = 2
    /\ texture_files[1] = <<97, 46, 98, 46, 112, 110, 103>>
    /\ texture_files[2] = <<97, 46, 112, 110, 103>>
    /\ output_files = {OutputPath(texture_files[1])}

\* C16 (as claimed): for every total >= 1 and index in 1..total the bar a
\* display thread has computed has 40 cells, floor(40*(index-1)/total) of
\* them filled (0..39), and the percentage is floor(100*(index-1)/total)
\* (0..99); both are 0 for the first item and not less than for the item
\* before; with total 0 the bar is empty and the percentage 0.
C16_ProgressIsFloor ==
    /\ BarOf(0, 0) = <<0, 40, 0>>
    /\ \A t \in DOMAIN threads :
           threads[t].shown # <<>> =>
               LET index == threads[t].bar[1]
                   total == threads[t].bar[2]
                   filled == threads[t].shown[1]
                   empty == threads[t].shown[2]
                   percentage == threads[t].shown[3]
               IN  (total >= 1 /\ index \in 1..total) =>
                       /\ filled + empty = 40
                       /\ filled = (40 * (index - 1)) \div total
                       /\ filled \in 0..39
                       /\ percentage = (100 * (index - 1)) \div total
                       /\ percentage \in 0..99
                       /\ index = 1 => (filled = 0 /\ percentage = 0)
                       /\ index > 1 =>
                              /\ Shown(index - 1, total)[1] <= filled
                              /\ Shown(index - 1, total)[3] <= percentage

====
